---- MODULE Spec2Model ----
(***************************************************************************)
(* Model of lib/strategy.js: the Cognito OAuth 2.0 passport strategy.      *)
(*                                                                         *)
(*   - Strategy(options, verify): the constructor (lines 61-75);           *)
(*   - Strategy.prototype.userProfile(userAccessToken, done) (lines        *)
(*     89-107): one cognitoClient.send of a GetUserCommand, and the two    *)
(*     promise reactions chained on it, .then(...) and .catch(...).        *)
(*                                                                         *)
(* JavaScript values are modelled as follows.  Strings are strings;        *)
(* `undefined` and `null` are the sentinels Undefined and Null.  An object *)
(* built by property assignment (the profile) is a function from property  *)
(* names to values, wrapped by Obj so that it can be compared with         *)
(* NullProfile.  A promise is a record [state, reason]; promise reactions  *)
(* run as separate steps (microtasks), never inside the step that settles  *)
(* or creates the promise.                                                 *)
(***************************************************************************)
EXTENDS Integers, Sequences, FiniteSets, TLC

\* Number of userProfile invocations that may be in flight on one Strategy.
NumAttempts == 2
\* Longest UserAttributes list enumerated by SpecProfile.
MaxAttrs == 2

Attempts == 1..NumAttempts

Undefined == "<undefined>"
Null == "<null>"

(***************************************************************************)
(* Inputs.                                                                 *)
(***************************************************************************)
\* Access tokens handed to userProfile by the OAuth2 exchange.
AccessTokens == {"tok-123", "bad-tok"}

\* Cognito attribute names and values.  Cognito attribute names are the
\* standard OIDC claims or carry a "custom:" / "dev:" prefix; "username" is
\* included because the profile's canonical field has that name.
AttrNames == {"email", "sub", "username"}
AttrValues == {"a@x.com", "a2@x.com"}
Usernames == {"alice", "bob"}

\* One element of UserAttributes: a {Name, Value} object, or an element that
\* cannot be read (null), for which `attribute.Name` throws a TypeError.
Attr(n, v) == [isNull |-> FALSE, Name |-> n, Value |-> v]
NullEntry == [isNull |-> TRUE, Name |-> Undefined, Value |-> Undefined]
Entries == {Attr(n, v) : n \in AttrNames, v \in AttrValues} \cup {NullEntry}

\* The UserAttributes field: an iterable list, or absent (undefined), for
\* which `for ... of` throws a TypeError.
List(items) == [iterable |-> TRUE, items |-> items]
NoList == [iterable |-> FALSE, items |-> <<>>]

SeqsUpTo(S, n) == UNION {[1..k -> S] : k \in 0..n}

\* GetUserCommand outputs with attribute lists of at most n elements, the
\* malformed ones (no Username, no UserAttributes, a null element) included.
Responses(n) ==
  [Username : Usernames \cup {Undefined},
   UserAttributes : {List(s) : s \in SeqsUpTo(Entries, n)} \cup {NoList}]

\* The responses the concurrent specification draws from: the scenario of
\* the documentation (duplicate email), a response colliding with the
\* canonical field, an empty one and the malformed shapes.
ScenarioResponses ==
  { [Username |-> "alice",
     UserAttributes |-> List(<<Attr("email", "a@x.com"), Attr("email", "a2@x.com")>>)],
    [Username |-> "bob",
     UserAttributes |-> List(<<Attr("sub", "a@x.com"), Attr("username", "a2@x.com")>>)],
    [Username |-> "bob", UserAttributes |-> List(<<>>)],
    [Username |-> Undefined, UserAttributes |-> List(<<Attr("sub", "a2@x.com")>>)],
    [Username |-> "alice", UserAttributes |-> List(<<Attr("sub", "a@x.com"), NullEntry>>)],
    [Username |-> "alice", UserAttributes |-> NoList] }

\* Reasons cognitoClient.send rejects with.
SendErrors == {"NotAuthorizedException", "NetworkingError"}
\* Thrown by `for (const attribute of undefined)` and by `null.Name`.
TypeError == "TypeError"
\* What the completion callback throws when it throws.
DoneError == "Error thrown by done"

(***************************************************************************)
(* The constructor.                                                        *)
(***************************************************************************)
ClientDomains == {Undefined, "https://myapp.auth.us-west-2.amazoncognito.com"}
ClientIDs == {Undefined, "123-456-789"}
ClientSecrets == {Undefined, "shhh-its-a-secret"}
CallbackURLs == {Undefined, "not a url", "https://myapp.com/auth/cognito/callback"}
Regions == {Undefined, "us-west-2"}
Verifies == {Undefined, "verify"}

CtorArgs ==
  [clientDomain : ClientDomains, clientID : ClientIDs, clientSecret : ClientSecrets,
   callbackURL : CallbackURLs, passReqToCallback : {Undefined, "true"},
   clientRegion : Regions, verify : Verifies]

\* The arguments of the example in the constructor's documentation.
ExampleArgs ==
  [clientDomain |-> "https://myapp.auth.us-west-2.amazoncognito.com",
   clientID |-> "123-456-789", clientSecret |-> "shhh-its-a-secret",
   callbackURL |-> "https://myapp.com/auth/cognito/callback",
   passReqToCallback |-> Undefined, clientRegion |-> "us-west-2",
   verify |-> "verify"]

\* A template literal `${clientDomain}<suffix>`: undefined prints as
\* "undefined".
Template(clientDomain, suffix) ==
  (IF clientDomain = Undefined THEN "undefined" ELSE clientDomain) \o suffix

\* const options = {...} (lines 62-69).
Options(args) ==
  [authorizationURL |-> Template(args.clientDomain, "/oauth2/authorize"),
   clientID |-> args.clientID,
   clientSecret |-> args.clientSecret,
   callbackURL |-> args.callbackURL,
   passReqToCallback |-> args.passReqToCallback,
   tokenURL |-> Template(args.clientDomain, "/oauth2/token")]

Falsy(v) == v \in {Undefined, Null, ""}

\* OAuth2Strategy.call(this, options, verify) (line 71): the base
\* constructor of passport-oauth2 throws a TypeError when verify,
\* options.authorizationURL, options.tokenURL or options.clientID is falsy,
\* and otherwise stores the options; it parses no URL and sends nothing.
OAuth2StrategyThrows(options, verify) ==
  \/ Falsy(verify)
  \/ Falsy(options.authorizationURL)
  \/ Falsy(options.tokenURL)
  \/ Falsy(options.clientID)

NoInstance(status) ==
  [status |-> status, name |-> Undefined, cognitoClient |-> Undefined,
   options |-> [authorizationURL |-> Undefined, clientID |-> Undefined,
                clientSecret |-> Undefined, callbackURL |-> Undefined,
                passReqToCallback |-> Undefined, tokenURL |-> Undefined],
   verify |-> Undefined]

\* new Strategy(args, verify): the instance, or status "threw" when the base
\* constructor throws (nothing after line 71 runs then).
Strategy(args) ==
  LET options == Options(args) IN
  IF OAuth2StrategyThrows(options, args.verify)
  THEN NoInstance("threw")
  ELSE [status |-> "constructed",
        name |-> "cognito-oauth2",
        cognitoClient |-> args.clientRegion,
        options |-> options,
        verify |-> args.verify]

(***************************************************************************)
(* State.                                                                  *)
(***************************************************************************)
VARIABLES
  strategy,      \* the Strategy instance (this), or the outcome of `new`
  ctorArgs,      \* the arguments `new Strategy` was called with
  pc,            \* per invocation: idle, awaiting, thenSettled, finished
  accessToken,   \* per invocation: the userAccessToken argument
  commands,      \* per invocation: the commands passed to cognitoClient.send
  sendPromise,   \* per invocation: the promise cognitoClient.send returned
  thenPromise,   \* per invocation: the promise .then(...) returned
  catchPromise,  \* per invocation: the promise .catch(...) returned
  doneCalls      \* per invocation: the invocations of done, in order

vars == <<strategy, ctorArgs, pc, accessToken, commands, sendPromise,
          thenPromise, catchPromise, doneCalls>>

attemptVars == <<pc, accessToken, commands, sendPromise, thenPromise,
                 catchPromise, doneCalls>>

NoResponse == [Username |-> Undefined, UserAttributes |-> NoList]
NoPromise == [state |-> "none", value |-> NoResponse, reason |-> Undefined]
Pending == [state |-> "pending", value |-> NoResponse, reason |-> Undefined]
Fulfilled(v) == [state |-> "fulfilled", value |-> v, reason |-> Undefined]
Rejected(e) == [state |-> "rejected", value |-> NoResponse, reason |-> e]

\* The profile argument of done: null, or an object.
NullProfile == [isNull |-> TRUE, props |-> <<>>]
Obj(props) == [isNull |-> FALSE, props |-> props]

\* new GetUserCommand({ AccessToken: userAccessToken }) (line 91).
GetUserCommand(userAccessToken) == [AccessToken |-> userAccessToken]

(***************************************************************************)
(* The body of the .then handler (lines 94-102).                           *)
(***************************************************************************)
\* const profile = { username: getUserResponse.Username } (lines 94-96).
\* Variant: the key spelled as the response spells it.
InitialProfileCapitalised(getUserResponse) ==
  "Username" :> getUserResponse.Username

\* Variant: the profile object kept across invocations, not created afresh.
InitialProfileShared(getUserResponse) ==
  LET holders == {a \in Attempts :
                    doneCalls[a] # <<>> /\ ~doneCalls[a][1].profile.isNull}
      fresh == "username" :> getUserResponse.Username
  IN IF holders = {} THEN fresh
     ELSE fresh @@ doneCalls[CHOOSE a \in holders : TRUE][1].profile.props

InitialProfile(getUserResponse) ==
  "username" :> getUserResponse.Username

\* profile[attribute.Name] = attribute.Value (line 99): the assignment
\* replaces the value of a property that exists.
\* Variant: a property that exists keeps its value.
ApplyAttributeFirstWins(profile, attribute) ==
  profile @@ (attribute.Name :> attribute.Value)

ApplyAttribute(profile, attribute) ==
  (attribute.Name :> attribute.Value) @@ profile

\* for (const attribute of getUserResponse.UserAttributes) {...} (lines
\* 98-100), from the profile built so far: the loop either visits every
\* element, or throws at the first element it cannot read.
\* Variant: the loop ends quietly at the element it cannot read.
RECURSIVE PopulatePartialOk(_, _)
PopulatePartialOk(profile, items) ==
  IF items = <<>> \/ Head(items).isNull
  THEN [threw |-> FALSE, profile |-> profile]
  ELSE PopulatePartialOk(ApplyAttribute(profile, Head(items)), Tail(items))

RECURSIVE Populate(_, _)
Populate(profile, items) ==
  IF items = <<>> THEN [threw |-> FALSE, profile |-> profile]
  ELSE IF Head(items).isNull THEN [threw |-> TRUE, profile |-> profile]
  ELSE Populate(ApplyAttribute(profile, Head(items)), Tail(items))

\* The handler up to its call of done: the arguments of done(null, profile)
\* (line 102), or the exception that leaves the handler before line 102.
OnFulfilled(getUserResponse) ==
  LET attrs == getUserResponse.UserAttributes
      built == Populate(InitialProfile(getUserResponse), attrs.items)
  IN IF ~attrs.iterable \/ built.threw
     THEN [threw |-> TRUE, error |-> TypeError,
           call |-> [err |-> Null, profile |-> NullProfile]]
     ELSE [threw |-> FALSE, error |-> Undefined,
           call |-> [err |-> Null, profile |-> Obj(built.profile)]]

\* The .catch handler (lines 103-105): the arguments of
\* done(userGetError, null).
\* Variant: the error replaced by one of the strategy's own.
OnRejectedWrapped(userGetError) ==
  [err |-> "Error: could not get user", profile |-> NullProfile]

OnRejected(userGetError) ==
  [err |-> userGetError, profile |-> NullProfile]

(***************************************************************************)
(* Actions.                                                                *)
(***************************************************************************)
\* new Strategy({...}, verify) (lines 61-75).
Construct(args) ==
  /\ strategy.status = "none"
  /\ ctorArgs' = args
  /\ strategy' = Strategy(args)
  /\ UNCHANGED attemptVars

\* done(err, profile) invoked for invocation a.
Done(a, call) == doneCalls' = [doneCalls EXCEPT ![a] = Append(@, call)]

\* userProfile(userAccessToken, done) (lines 89-107): builds the command,
\* passes it to cognitoClient.send, chains .then and .catch on the promise
\* send returns and returns.  `first` is that promise as send returns it:
\* pending, or settled already.
\* Variant: a rejection that is already there is reported before returning.
UserProfileSync(a, userAccessToken, first) ==
  /\ strategy.status = "constructed"
  /\ pc[a] = "idle"
  /\ accessToken' = [accessToken EXCEPT ![a] = userAccessToken]
  /\ commands' = [commands EXCEPT ![a] = Append(@, GetUserCommand(userAccessToken))]
  /\ sendPromise' = [sendPromise EXCEPT ![a] = first]
  /\ IF first.state = "rejected"
     THEN /\ Done(a, OnRejected(first.reason))
          /\ pc' = [pc EXCEPT ![a] = "finished"]
          /\ thenPromise' = [thenPromise EXCEPT ![a] = Rejected(first.reason)]
          /\ catchPromise' = [catchPromise EXCEPT ![a] = Fulfilled(NoResponse)]
     ELSE /\ pc' = [pc EXCEPT ![a] = "awaiting"]
          /\ thenPromise' = [thenPromise EXCEPT ![a] = Pending]
          /\ catchPromise' = [catchPromise EXCEPT ![a] = Pending]
          /\ UNCHANGED doneCalls
  /\ UNCHANGED <<strategy, ctorArgs>>

UserProfile(a, userAccessToken, first) ==
  /\ strategy.status = "constructed"
  /\ pc[a] = "idle"
  /\ accessToken' = [accessToken EXCEPT ![a] = userAccessToken]
  /\ commands' = [commands EXCEPT ![a] = Append(@, GetUserCommand(userAccessToken))]
  /\ sendPromise' = [sendPromise EXCEPT ![a] = first]
  /\ thenPromise' = [thenPromise EXCEPT ![a] = Pending]
  /\ catchPromise' = [catchPromise EXCEPT ![a] = Pending]
  /\ pc' = [pc EXCEPT ![a] = "awaiting"]
  /\ UNCHANGED <<strategy, ctorArgs, doneCalls>>

\* The identity provider answers: the promise of send settles.
SendSettles(a, outcome) ==
  /\ pc[a] = "awaiting"
  /\ sendPromise[a].state = "pending"
  /\ outcome.state \in {"fulfilled", "rejected"}
  /\ sendPromise' = [sendPromise EXCEPT ![a] = outcome]
  /\ UNCHANGED <<strategy, ctorArgs, pc, accessToken, commands, thenPromise,
                 catchPromise, doneCalls>>

\* The reaction of .then(handler) to the settled promise of send (lines
\* 93-103).  A rejection passes through to the promise .then returned
\* without running the handler.  A fulfilment runs the handler: an exception
\* of the loop, or of done when doneThrows, rejects the promise .then
\* returned.
ThenReaction(a, doneThrows) ==
  /\ pc[a] = "awaiting"
  /\ sendPromise[a].state \in {"fulfilled", "rejected"}
  /\ pc' = [pc EXCEPT ![a] = "thenSettled"]
  /\ IF sendPromise[a].state = "rejected"
     THEN /\ ~doneThrows
          /\ thenPromise' = [thenPromise EXCEPT ![a] = Rejected(sendPromise[a].reason)]
          /\ UNCHANGED doneCalls
     ELSE LET h == OnFulfilled(sendPromise[a].value) IN
          IF h.threw
          THEN /\ ~doneThrows
               /\ thenPromise' = [thenPromise EXCEPT ![a] = Rejected(h.error)]
               /\ UNCHANGED doneCalls
          ELSE /\ Done(a, h.call)
               /\ thenPromise' = [thenPromise EXCEPT ![a] =
                    IF doneThrows THEN Rejected(DoneError) ELSE Fulfilled(NoResponse)]
  /\ UNCHANGED <<strategy, ctorArgs, accessToken, commands, sendPromise, catchPromise>>

\* The reaction of .catch(handler) to the settled promise of .then (lines
\* 103-105).  A fulfilment passes through; a rejection runs the handler,
\* and an exception of done rejects the promise .catch returned, which
\* nothing handles.
\* Variant: the handler sends the command once more.
CatchReactionRetry(a, doneThrows) ==
  /\ pc[a] = "thenSettled"
  /\ pc' = [pc EXCEPT ![a] = "finished"]
  /\ IF thenPromise[a].state = "fulfilled"
     THEN /\ ~doneThrows
          /\ catchPromise' = [catchPromise EXCEPT ![a] = Fulfilled(NoResponse)]
          /\ UNCHANGED <<doneCalls, commands>>
     ELSE /\ Done(a, OnRejected(thenPromise[a].reason))
          /\ commands' = [commands EXCEPT ![a] = Append(@, GetUserCommand(accessToken[a]))]
          /\ catchPromise' = [catchPromise EXCEPT ![a] =
               IF doneThrows THEN Rejected(DoneError) ELSE Fulfilled(NoResponse)]
  /\ UNCHANGED <<strategy, ctorArgs, accessToken, sendPromise, thenPromise>>

CatchReaction(a, doneThrows) ==
  /\ pc[a] = "thenSettled"
  /\ pc' = [pc EXCEPT ![a] = "finished"]
  /\ IF thenPromise[a].state = "fulfilled"
     THEN /\ ~doneThrows
          /\ catchPromise' = [catchPromise EXCEPT ![a] = Fulfilled(NoResponse)]
          /\ UNCHANGED doneCalls
     ELSE /\ Done(a, OnRejected(thenPromise[a].reason))
          /\ catchPromise' = [catchPromise EXCEPT ![a] =
               IF doneThrows THEN Rejected(DoneError) ELSE Fulfilled(NoResponse)]
  /\ UNCHANGED <<strategy, ctorArgs, accessToken, commands, sendPromise, thenPromise>>

(***************************************************************************)
(* Specifications.                                                         *)
(***************************************************************************)
IdleAttempts ==
  /\ pc = [a \in Attempts |-> "idle"]
  /\ accessToken = [a \in Attempts |-> Undefined]
  /\ commands = [a \in Attempts |-> <<>>]
  /\ sendPromise = [a \in Attempts |-> NoPromise]
  /\ thenPromise = [a \in Attempts |-> NoPromise]
  /\ catchPromise = [a \in Attempts |-> NoPromise]
  /\ doneCalls = [a \in Attempts |-> <<>>]

\* The state after the construction of the documentation's example.
Init ==
  /\ ctorArgs = ExampleArgs
  /\ strategy = Strategy(ExampleArgs)
  /\ IdleAttempts

\* What send may return or settle with, over a set of responses.
Outcomes(responses) ==
  {Fulfilled(r) : r \in responses} \cup {Rejected(e) : e \in SendErrors}

\* Any number of invocations in flight on the one instance.
Next ==
  \E a \in Attempts :
    \/ \E t \in AccessTokens, first \in {Pending} \cup Outcomes(ScenarioResponses) :
         UserProfile(a, t, first)
    \/ \E outcome \in Outcomes(ScenarioResponses) : SendSettles(a, outcome)
    \/ \E doneThrows \in BOOLEAN : ThenReaction(a, doneThrows)
    \/ \E doneThrows \in BOOLEAN : CatchReaction(a, doneThrows)

Spec == Init /\ [][Next]_vars

\* One invocation, over every response with at most MaxAttrs attributes.
NextProfile ==
  \/ \E first \in {Pending} \cup Outcomes(Responses(MaxAttrs)) :
       UserProfile(1, "tok-123", first)
  \/ \E outcome \in Outcomes(Responses(MaxAttrs)) : SendSettles(1, outcome)
  \/ \E doneThrows \in BOOLEAN : ThenReaction(1, doneThrows)
  \/ \E doneThrows \in BOOLEAN : CatchReaction(1, doneThrows)

SpecProfile == Init /\ [][NextProfile]_vars

\* Construction with any arguments, followed by one invocation.
InitConstruct ==
  /\ ctorArgs = ExampleArgs
  /\ strategy = NoInstance("none")
  /\ IdleAttempts

NextConstruct ==
  \/ \E args \in CtorArgs : Construct(args)
  \/ \E t \in AccessTokens, first \in {Pending} \cup Outcomes(ScenarioResponses) :
       UserProfile(1, t, first)
  \/ \E outcome \in Outcomes(ScenarioResponses) : SendSettles(1, outcome)
  \/ \E doneThrows \in BOOLEAN : ThenReaction(1, doneThrows)
  \/ \E doneThrows \in BOOLEAN : CatchReaction(1, doneThrows)

SpecConstruct == InitConstruct /\ [][NextConstruct]_vars

(***************************************************************************)
(* Properties.                                                             *)
(***************************************************************************)
Success(c) == c.err = Null /\ ~c.profile.isNull
Failure(c) == c.err # Null /\ c.profile.isNull
Settled(p) == p.state \in {"fulfilled", "rejected"}

\* A response with a Username and a list of readable attributes.
WellFormed(r) ==
  /\ r.Username # Undefined
  /\ r.UserAttributes.iterable
  /\ \A i \in DOMAIN r.UserAttributes.items : ~r.UserAttributes.items[i].isNull

Items(a) == sendPromise[a].value.UserAttributes.items
NamesOf(items) == {items[i].Name : i \in {j \in DOMAIN items : ~items[j].isNull}}
ValuesOf(items, n) ==
  {items[i].Value : i \in {j \in DOMAIN items : ~items[j].isNull /\ items[j].Name = n}}

\* C1: when cognitoClient.send rejects, done is invoked with exactly the
\* rejection reason (not null) and a null profile, and not before the
\* .catch reaction has run; no invocation of done carries both an error and
\* a profile.
C1_RejectionPassedThrough ==
  \A a \in Attempts :
    /\ \A i \in DOMAIN doneCalls[a] :
         ~(doneCalls[a][i].err # Null /\ ~doneCalls[a][i].profile.isNull)
    /\ sendPromise[a].state = "rejected" =>
         /\ pc[a] = "finished" =>
              /\ doneCalls[a] = << [err |-> sendPromise[a].reason,
                                    profile |-> NullProfile] >>
              /\ doneCalls[a][1].err # Null
         /\ pc[a] # "finished" => doneCalls[a] = <<>>

C1_Witness ==
  \E a \in Attempts :
    /\ sendPromise[a].state = "rejected"
    /\ pc[a] = "finished"
    /\ Len(doneCalls[a]) = 1

\* C2: done is invoked once and only once per invocation, with
\* (null, profile) or with (error, null), whatever the provider call and the
\* completion callback do.
C2_ExactlyOnce ==
  \A a \in Attempts :
    /\ Len(doneCalls[a]) <= 1
    /\ pc[a] = "finished" => Len(doneCalls[a]) = 1
    /\ \A i \in DOMAIN doneCalls[a] :
         Success(doneCalls[a][i]) \/ Failure(doneCalls[a][i])

\* C3: in the profile passed to done, every attribute name maps to the
\* Value of its last occurrence in UserAttributes; `username` holds the
\* response's Username unless an attribute is named `username`, whose last
\* Value then replaces it.
LastValue(items, n) ==
  items[CHOOSE i \in DOMAIN items :
          /\ items[i].Name = n
          /\ \A j \in DOMAIN items : j > i => items[j].Name # n].Value

C3_LastWriteWins ==
  \A a \in Attempts : \A i \in DOMAIN doneCalls[a] :
    LET c == doneCalls[a][i]
        props == c.profile.props
    IN Success(c) =>
         /\ \A n \in NamesOf(Items(a)) :
              n \in DOMAIN props /\ props[n] = LastValue(Items(a), n)
         /\ "username" \notin NamesOf(Items(a)) =>
              /\ "username" \in DOMAIN props
              /\ props["username"] = sendPromise[a].value.Username

C3_Witness ==
  \E a \in Attempts :
    /\ doneCalls[a] # <<>>
    /\ Success(doneCalls[a][1])
    /\ Cardinality(ValuesOf(Items(a), "username")) > 1
    /\ sendPromise[a].value.Username \notin ValuesOf(Items(a), "username")

\* C4: for a well-formed response the .then reaction passes a profile whose
\* keys are exactly `username` and the attribute names (N+1 keys when the N
\* names are distinct and none is `username`, never more), each attribute
\* name holding a Value the response gives it; an empty list yields the
\* one key `username` holding Username.
C4_ExactKeys ==
  \A a \in Attempts :
    (/\ sendPromise[a].state = "fulfilled"
     /\ WellFormed(sendPromise[a].value)
     /\ pc[a] \in {"thenSettled", "finished"}) =>
      /\ doneCalls[a] # <<>>
      /\ Success(doneCalls[a][1])
      /\ LET props == doneCalls[a][1].profile.props
             names == NamesOf(Items(a))
             N == Len(Items(a))
         IN /\ DOMAIN props = {"username"} \cup names
            /\ \A n \in names : props[n] \in ValuesOf(Items(a), n)
            /\ Cardinality(DOMAIN props) <= N + 1
            /\ (Cardinality(names) = N /\ "username" \notin names) =>
                 Cardinality(DOMAIN props) = N + 1
            /\ N = 0 => props = ("username" :> sendPromise[a].value.Username)

C4_Witness ==
  \E a \in Attempts :
    /\ sendPromise[a].state = "fulfilled"
    /\ WellFormed(sendPromise[a].value)
    /\ Len(Items(a)) = 2
    /\ doneCalls[a] # <<>>
    /\ Success(doneCalls[a][1])
    /\ Cardinality(DOMAIN doneCalls[a][1].profile.props) = 3

\* C5: a response that lacks Username, or whose UserAttributes is not a list
\* of readable entries, is reported to done as (error, null) and never as
\* (null, profile).
C5_MalformedIsError ==
  \A a \in Attempts : \A i \in DOMAIN doneCalls[a] :
    (sendPromise[a].state = "fulfilled" /\ ~WellFormed(sendPromise[a].value)) =>
      Failure(doneCalls[a][i])

\* C6: an invocation passes exactly one command to cognitoClient.send, the
\* GetUserCommand carrying its access token, and none after a failure.
C6_OneRequest ==
  \A a \in Attempts :
    commands[a] = IF pc[a] = "idle" THEN <<>>
                  ELSE << [AccessToken |-> accessToken[a]] >>

C6_Witness ==
  \E a \in Attempts :
    /\ pc[a] = "finished"
    /\ \E i \in DOMAIN doneCalls[a] : Failure(doneCalls[a][i])
    /\ Len(commands[a]) = 1

\* C7: construction with clientDomain, clientID or clientSecret missing, or
\* callbackURL missing or unparseable, throws and leaves no instance; no
\* construction sends anything.
ParseableURL(u) == u = "https://myapp.com/auth/cognito/callback"

RequiredFields(args) ==
  /\ args.clientDomain # Undefined
  /\ args.clientID # Undefined
  /\ args.clientSecret # Undefined
  /\ ParseableURL(args.callbackURL)

C7_FailsFast ==
  /\ strategy.status = "constructed" => RequiredFields(ctorArgs)
  /\ strategy.status = "threw" => \A a \in Attempts : commands[a] = <<>>
  /\ (\A a \in Attempts : pc[a] = "idle") => \A a \in Attempts : commands[a] = <<>>

\* C8: done(null, profile) is invoked only with every entry of the
\* attribute list applied; when the loop stops part-way the attempt ends
\* with the single call done(TypeError, null); no (null, profile) call
\* follows an (error, null) call, and no second request follows one.
Stops(r) ==
  \/ ~r.UserAttributes.iterable
  \/ \E i \in DOMAIN r.UserAttributes.items : r.UserAttributes.items[i].isNull

C8_AllOrNothing ==
  \A a \in Attempts :
    LET calls == doneCalls[a] IN
    /\ \A i \in DOMAIN calls :
         Success(calls[i]) =>
           /\ sendPromise[a].state = "fulfilled"
           /\ ~Stops(sendPromise[a].value)
           /\ \A k \in DOMAIN Items(a) :
                Items(a)[k].Name \in DOMAIN calls[i].profile.props
    /\ (sendPromise[a].state = "fulfilled" /\ Stops(sendPromise[a].value)) =>
         /\ pc[a] = "finished" =>
              calls = << [err |-> TypeError, profile |-> NullProfile] >>
         /\ pc[a] # "finished" => calls = <<>>
    /\ \A i, j \in DOMAIN calls :
         i < j => ~(Failure(calls[i]) /\ Success(calls[j]))
    /\ (\E i \in DOMAIN calls : Failure(calls[i])) => Len(commands[a]) = 1

C8_Witness ==
  \E a \in Attempts :
    /\ sendPromise[a].state = "fulfilled"
    /\ Len(Items(a)) = 2
    /\ ~Items(a)[1].isNull
    /\ Items(a)[2].isNull
    /\ pc[a] = "finished"
    /\ doneCalls[a] = << [err |-> TypeError, profile |-> NullProfile] >>

\* C9: whatever the interleaving of the invocations in flight, the
\* arguments of each done come from that invocation's own response (keys
\* and values of its own Username and attributes) or are its own error, and
\* the Strategy instance keeps the fields construction gave it.
OwnValues(a) ==
  {sendPromise[a].value.Username} \cup
  UNION {ValuesOf(Items(a), n) : n \in NamesOf(Items(a))}

OwnErrors(a) ==
  IF sendPromise[a].state = "rejected"
  THEN {sendPromise[a].reason}
  ELSE {TypeError, DoneError}

C9_Isolation ==
  /\ strategy = Strategy(ExampleArgs)
  /\ \A a \in Attempts : \A i \in DOMAIN doneCalls[a] :
       LET c == doneCalls[a][i] IN
       /\ Success(c) =>
            /\ sendPromise[a].state = "fulfilled"
            /\ DOMAIN c.profile.props = {"username"} \cup NamesOf(Items(a))
            /\ \A k \in DOMAIN c.profile.props : c.profile.props[k] \in OwnValues(a)
       /\ ~Success(c) => Failure(c) /\ c.err \in OwnErrors(a)

C9_Witness ==
  \E a, b \in Attempts :
    /\ a # b
    /\ pc[a] = "thenSettled" /\ pc[b] = "finished"
    /\ Len(commands[a]) = 1 /\ Len(commands[b]) = 1
    /\ doneCalls[a] # <<>> /\ Success(doneCalls[a][1])
    /\ doneCalls[b] # <<>> /\ Success(doneCalls[b][1])
    /\ NamesOf(Items(a)) \cap NamesOf(Items(b)) = {}
    /\ NamesOf(Items(a)) # {} /\ NamesOf(Items(b)) # {}

\* C10: every step that invokes done for an invocation starts in a state in
\* which userProfile has returned for it and its provider call has settled.
C10_DoneAfterReturn ==
  [][\A a \in Attempts :
       doneCalls'[a] # doneCalls[a] =>
         pc[a] # "idle" /\ Settled(sendPromise[a])]_vars

C10_Witness ==
  \E a \in Attempts :
    /\ pc[a] = "awaiting"
    /\ Settled(sendPromise[a])
    /\ doneCalls[a] = <<>>

====
